---- MODULE Spec2Model ----
(***************************************************************************)
(* State-machine model of MidiScheduler (src/src/services/midiScheduler.js) *)
(* and of MidiEvent.                                                        *)
(*                                                                          *)
(* Units.  Wall-clock time (Date.now()) is an integer number of             *)
(* milliseconds.  Beat positions are integers counting 1/BeatUnit of a      *)
(* beat.  A playback speed x is stored as x * SpeedScale.  The products and *)
(* quotients of the source are kept as exact fractions and compared by      *)
(* cross-multiplication, so no rounding is introduced by the model.         *)
(*                                                                          *)
(* Time.  link.beat is the beat of an ideal clock at Date.now().  A         *)
(* setTimeout callback is due max(1, delay) ms after it is armed and the    *)
(* setInterval callback every scheduleInterval ms; no callback runs late,   *)
(* and callbacks due at the same millisecond run in either order.           *)
(***************************************************************************)
EXTENDS Integers, Sequences, FiniteSets, TLC

VARIABLES
  events,               \* this.events: the queue, a sequence of event ids
  heap,                 \* every MidiEvent object ever created, by id
  activeNotes,          \* this.activeNotes: Map in insertion order
  timers,               \* outstanding setTimeout callbacks, in creation order
  isRunning,            \* this.isRunning
  scheduleTimer,        \* this.scheduleTimer: <<>> (null) or <<next due time>>
  latencyCompensation,  \* this.latencyCompensation (ms)
  playbackSpeed,        \* this.playbackSpeed * SpeedScale
  loopLength,           \* this.loopLength (beat units)
  loopStart,            \* this.loopStart (beat units)
  lastScheduledBeat,    \* this.lastScheduledBeat (beat units)
  virtualBeatOffset,    \* this.virtualBeatOffset (1/(BeatUnit*SpeedScale) beat)
  lastUpdateBeat,       \* this.lastUpdateBeat (beat units)
  stats,                \* this.stats
  isConnected,          \* this.midiService.isConnected
  quantum,              \* this.link.quantum (beats per bar)
  now,                  \* Date.now()
  out,                  \* history: transport calls made by the last step
  sounding,             \* history: pairs whose last transport message was a note-on
  lastOp,               \* history: the operation performed by the last step
  everLooped,           \* history: a loop has been enabled at some point
  ops,                  \* history: number of host calls made so far
  t0                    \* history: wall-clock time of the initial state

vars == <<events, heap, activeNotes, timers, isRunning, scheduleTimer,
          latencyCompensation, playbackSpeed, loopLength, loopStart,
          lastScheduledBeat, virtualBeatOffset, lastUpdateBeat, stats,
          isConnected, quantum, now, out, sounding, lastOp, everLooped, ops,
          t0>>

----------------------------------------------------------------------------
(* Program constants *)

lookaheadTime == 200
scheduleInterval == 25
ResetDelay == 100
MinLatency == -500
MaxLatency == 500
SpeedScale == 100
MinSpeed == 10
MaxSpeed == 400
SpeedEpsilon == 5
DefaultBpm == 120
DefaultQuantum == 4
NoteCount == 128
MsPerMinute == 60000
BeatUnit == MsPerMinute \div DefaultBpm

(* Bounds of the model *)

MaxTime == 400
WindowTime == 125
MaxOps == 4
MaxEvents == 3
MaxCycles == 3
MaxNotes == 2
MaxControls == 3
MaxRegOps == 2
MaxBeats == 4

----------------------------------------------------------------------------
(* Small helpers *)

Max(a, b) == IF a >= b THEN a ELSE b
Min(a, b) == IF a <= b THEN a ELSE b
Abs(a) == IF a >= 0 THEN a ELSE -a

\* JavaScript's % : the result takes the sign of the dividend.
JsMod(a, b) == IF a >= 0 THEN a % b ELSE -((-a) % b)

\* Math.floor(n / d) and the ceiling of n / d, for d > 0.
FloorDiv(n, d) == n \div d
CeilDiv(n, d) == -((-n) \div d)

\* Exact fractions num / den with den > 0, kept in lowest terms.
RECURSIVE GCD(_, _)
GCD(a, b) == IF b = 0 THEN a ELSE GCD(b, a % b)

Frac(n, d) ==
  LET g == GCD(Abs(n), d) IN [num |-> n \div g, den |-> d \div g]

\* x * y, cross-reduced before multiplying.
FracMul(x, y) ==
  LET g1 == GCD(Abs(x.num), y.den)
      g2 == GCD(Abs(y.num), x.den)
  IN [num |-> (x.num \div g1) * (y.num \div g2),
      den |-> (x.den \div g2) * (y.den \div g1)]

----------------------------------------------------------------------------
(* The clock source: link.beat, link.bpm *)

bpm == DefaultBpm

\* link.beat at wall-clock time t, in beat units.
LinkBeat(t) == (t * bpm * BeatUnit) \div MsPerMinute

----------------------------------------------------------------------------
(* MidiEvent *)

NOTE_ON == "noteOn"
NOTE_OFF == "noteOff"
CC == "cc"
SAFETY_NOTEOFF == "SAFETY_NOTEOFF"

\* null / undefined, and a value that is present.
Null == <<>>
Some(x) == <<x>>

\* new MidiEvent({...}): the fields given in p, the defaults for the rest.
MidiEvent(p) ==
  [type       |-> IF "type" \in DOMAIN p THEN p.type ELSE NOTE_ON,
   beat       |-> IF "beat" \in DOMAIN p THEN p.beat ELSE 0,
   bar        |-> IF "bar" \in DOMAIN p THEN p.bar ELSE 0,
   note       |-> IF "note" \in DOMAIN p THEN p.note ELSE 60,
   velocity   |-> IF "velocity" \in DOMAIN p THEN p.velocity ELSE 100,
   duration   |-> IF "duration" \in DOMAIN p THEN p.duration ELSE BeatUnit \div 4,
   channel    |-> IF "channel" \in DOMAIN p THEN p.channel ELSE 0,
   controller |-> IF "controller" \in DOMAIN p THEN p.controller ELSE 0,
   value      |-> IF "value" \in DOMAIN p THEN p.value ELSE 0,
   data       |-> IF "data" \in DOMAIN p THEN p.data ELSE [channels |-> Null],
   executed   |-> FALSE,
   scheduledTime |-> Null,
   cancelled  |-> FALSE,
   fired      |-> 0]

\* event.getAbsoluteBeat(quantum), in beat units.
getAbsoluteBeat(e, q) == e.bar * q * BeatUnit + e.beat

----------------------------------------------------------------------------
(* The scheduler as a record, so that operations compose *)

State ==
  [events |-> events, heap |-> heap, activeNotes |-> activeNotes,
   timers |-> timers, isRunning |-> isRunning, scheduleTimer |-> scheduleTimer,
   latencyCompensation |-> latencyCompensation, playbackSpeed |-> playbackSpeed,
   loopLength |-> loopLength, loopStart |-> loopStart,
   lastScheduledBeat |-> lastScheduledBeat,
   virtualBeatOffset |-> virtualBeatOffset, lastUpdateBeat |-> lastUpdateBeat,
   stats |-> stats, isConnected |-> isConnected, quantum |-> quantum,
   now |-> now, out |-> <<>>]

\* new MidiScheduler(midiService, link), constructed at wall-clock time t.
Constructed(t) ==
  [events |-> <<>>, heap |-> <<>>, activeNotes |-> <<>>, timers |-> <<>>,
   isRunning |-> FALSE, scheduleTimer |-> Null,
   latencyCompensation |-> 0, playbackSpeed |-> SpeedScale,
   loopLength |-> 0, loopStart |-> 0,
   lastScheduledBeat |-> -BeatUnit,
   virtualBeatOffset |-> 0, lastUpdateBeat |-> 0,
   stats |-> [eventsScheduled |-> 0, eventsExecuted |-> 0, notesPlayed |-> 0,
              lastEventTime |-> Null],
   isConnected |-> TRUE, quantum |-> DefaultQuantum,
   now |-> t, out |-> <<>>]

----------------------------------------------------------------------------
(* Event Queue *)

\* this.link?.quantum || 4
QuantumOr4(m) == IF m.quantum = 0 THEN DefaultQuantum ELSE m.quantum

\* One step of the stable sort: id goes after every entry whose absolute beat
\* is less than or equal to its own.
RECURSIVE InsertSorted(_, _, _, _)
InsertSorted(sorted, id, h, q) ==
  IF sorted = <<>> THEN <<id>>
  ELSE IF getAbsoluteBeat(h[Head(sorted)], q) <= getAbsoluteBeat(h[id], q)
       THEN <<Head(sorted)>> \o InsertSorted(Tail(sorted), id, h, q)
       ELSE <<id>> \o sorted

\* this.events.sort((a, b) => beatA - beatB): a stable sort of the whole array.
RECURSIVE SortEvents(_, _, _)
SortEvents(ids, h, q) ==
  IF ids = <<>> THEN <<>>
  ELSE InsertSorted(SortEvents(SubSeq(ids, 1, Len(ids) - 1), h, q),
                    ids[Len(ids)], h, q)

\* Mutant: addEvent() that pushes the event and does not sort.
addEventWithoutSort(m, p) ==
  LET id == Len(m.heap) + 1
      h  == Append(m.heap, MidiEvent(p))
  IN [m EXCEPT !.heap = h,
               !.events = Append(m.events, id),
               !.stats.eventsScheduled = @ + 1]

addEvent(m, p) ==
  LET id == Len(m.heap) + 1
      h  == Append(m.heap, MidiEvent(p))
  IN [m EXCEPT !.heap = h,
               !.events = SortEvents(Append(m.events, id), h, QuantumOr4(m)),
               !.stats.eventsScheduled = @ + 1]

\* events.forEach(event => this.addEvent(event))
RECURSIVE addEvents(_, _)
addEvents(m, ps) ==
  IF ps = <<>> THEN m ELSE addEvents(addEvent(m, Head(ps)), Tail(ps))

\* addNote with the note-off placed at the whole off beat within the off bar.
addNoteWithoutModulo(m, p) ==
  LET m1 == addEvent(m, [type |-> NOTE_ON, beat |-> p.beat, bar |-> p.bar,
                         note |-> p.note, velocity |-> p.velocity,
                         channel |-> p.channel, duration |-> p.duration])
      q == QuantumOr4(m1) * BeatUnit
      absoluteBeat == p.bar * q + p.beat
      offBeat == absoluteBeat + p.duration
      offBar == FloorDiv(offBeat, q)
  IN addEvent(m1, [type |-> NOTE_OFF, beat |-> offBeat, bar |-> offBar,
                   note |-> p.note, channel |-> p.channel])

addNote(m, p) ==
  LET m1 == addEvent(m, [type |-> NOTE_ON, beat |-> p.beat, bar |-> p.bar,
                         note |-> p.note, velocity |-> p.velocity,
                         channel |-> p.channel, duration |-> p.duration])
      q == QuantumOr4(m1) * BeatUnit
      absoluteBeat == p.bar * q + p.beat
      offBeat == absoluteBeat + p.duration
      offBar == FloorDiv(offBeat, q)
      offBeatInBar == JsMod(offBeat, q)
  IN addEvent(m1, [type |-> NOTE_OFF, beat |-> offBeatInBar, bar |-> offBar,
                   note |-> p.note, channel |-> p.channel])

\* notes.map(note => this.addNote({beat, bar, note, velocity, duration,
\* channel}))
RECURSIVE addChord(_, _)
addChord(m, p) ==
  IF p.notes = <<>> THEN m
  ELSE addChord(addNote(m, [beat |-> p.beat, bar |-> p.bar,
                            note |-> Head(p.notes), velocity |-> p.velocity,
                            duration |-> p.duration, channel |-> p.channel]),
                [p EXCEPT !.notes = Tail(@)])

\* Mutant: addPattern in which a rest does not advance the position.
RECURSIVE PatternFromSkippingRests(_, _, _, _)
PatternFromSkippingRests(m, pattern, currentBeat, currentBar) ==
  IF pattern = <<>> THEN m
  ELSE
    LET noteData == Head(pattern)
        step == IF noteData.number THEN BeatUnit \div 4
                ELSE IF noteData.rest THEN 0 ELSE noteData.duration
        m1 == IF noteData.number \/ (~noteData.rest /\ noteData.note # Null)
              THEN addNote(m, [beat |-> currentBeat, bar |-> currentBar,
                               note |-> noteData.note[1], velocity |-> 100,
                               duration |-> step, channel |-> 0])
              ELSE m
        b1 == currentBeat + step
        q == m.quantum * BeatUnit
    IN IF q > 0
       THEN PatternFromSkippingRests(m1, Tail(pattern), b1 % q,
                                     currentBar + (b1 \div q))
       ELSE PatternFromSkippingRests(m1, Tail(pattern), b1, currentBar)

\* The forEach of addPattern from the position (currentBar, currentBeat). An
\* item is a bare note number (number TRUE) or an object with note (Null
\* when absent), duration and rest. The carry into the next bar compares
\* with this.link.quantum itself: with no quantum set nothing is carried.
RECURSIVE PatternFrom(_, _, _, _)
PatternFrom(m, pattern, currentBeat, currentBar) ==
  IF pattern = <<>> THEN m
  ELSE
    LET noteData == Head(pattern)
        step == IF noteData.number THEN BeatUnit \div 4 ELSE noteData.duration
        m1 == IF noteData.number \/ (~noteData.rest /\ noteData.note # Null)
              THEN addNote(m, [beat |-> currentBeat, bar |-> currentBar,
                               note |-> noteData.note[1], velocity |-> 100,
                               duration |-> step, channel |-> 0])
              ELSE m
        b1 == currentBeat + step
        q == m.quantum * BeatUnit
    IN IF q > 0
       THEN PatternFrom(m1, Tail(pattern), b1 % q, currentBar + (b1 \div q))
       ELSE PatternFrom(m1, Tail(pattern), b1, currentBar)

addPattern(m, pattern, startBar) == PatternFrom(m, pattern, 0, startBar)

setLoop(m, length, start) ==
  [m EXCEPT !.loopLength = length, !.loopStart = start]

----------------------------------------------------------------------------
(* Active-Note Registry and Safety Manager *)

\* The registry key `${channel}-${note}`.
NoteKey(channel, note) == <<channel, note>>

\* key.split('-').map(Number), first two components: a minus sign in the key
\* is taken for a separator, and an empty component converts to 0.
ParseKey(key) ==
  IF key[1] < 0 THEN <<0, -key[1]>>
  ELSE IF key[2] < 0 THEN <<key[1], 0>>
  ELSE <<key[1], key[2]>>

HasKey(reg, key) == \E i \in DOMAIN reg : reg[i].key = key

\* Map.prototype.set: an existing key keeps its place.
MapSet(reg, key, id) ==
  IF HasKey(reg, key)
  THEN [i \in DOMAIN reg |->
          IF reg[i].key = key THEN [key |-> key, event |-> id] ELSE reg[i]]
  ELSE Append(reg, [key |-> key, event |-> id])

\* Removes every entry whose key is in the set keys (Map.prototype.delete).
RECURSIVE MapDelete(_, _)
MapDelete(reg, keys) ==
  IF reg = <<>> THEN <<>>
  ELSE IF Head(reg).key \in keys THEN MapDelete(Tail(reg), keys)
       ELSE <<Head(reg)>> \o MapDelete(Tail(reg), keys)

\* The transport calls.
SendNoteOn(note, velocity, channel) ==
  [call |-> "noteOn", note |-> note, channel |-> channel, arg |-> velocity]
SendNoteOff(note, channel) ==
  [call |-> "noteOff", note |-> note, channel |-> channel, arg |-> 0]
SendCC(controller, value, channel) ==
  [call |-> "cc", note |-> controller, channel |-> channel, arg |-> value]

\* Mutant: the note-offs are sent but the registry is not emptied.
stopAllNotesKeepingRegistry(m) ==
  LET offs == [i \in DOMAIN m.activeNotes |->
                 SendNoteOff(ParseKey(m.activeNotes[i].key)[2],
                             ParseKey(m.activeNotes[i].key)[1])]
  IN [m EXCEPT !.out = @ \o offs]

stopAllNotes(m) ==
  LET offs == [i \in DOMAIN m.activeNotes |->
                 SendNoteOff(ParseKey(m.activeNotes[i].key)[2],
                             ParseKey(m.activeNotes[i].key)[1])]
  IN [m EXCEPT !.out = @ \o offs, !.activeNotes = <<>>]

\* The note-offs for all 128 notes of each target channel, channel by channel.
RECURSIVE AllNotesOff(_)
AllNotesOff(channels) ==
  IF channels = <<>> THEN <<>>
  ELSE [n \in 1..NoteCount |-> SendNoteOff(n - 1, Head(channels))]
       \o AllNotesOff(Tail(channels))

\* The distinct channels of the registry, in order of first appearance.
RECURSIVE ActiveChannels(_, _)
ActiveChannels(reg, seen) ==
  IF reg = <<>> THEN <<>>
  ELSE LET c == ParseKey(Head(reg).key)[1]
       IN IF c \in seen THEN ActiveChannels(Tail(reg), seen)
          ELSE <<c>> \o ActiveChannels(Tail(reg), seen \cup {c})

\* Mutant: the whole registry is cleared, whatever the target channels.
sendSafetyNoteOffsClearingAll(m, channels, onlyActiveChannels) ==
  IF ~m.isConnected THEN m
  ELSE
    LET targetChannels ==
          IF onlyActiveChannels THEN ActiveChannels(m.activeNotes, {})
          ELSE IF channels # Null THEN channels[1]
          ELSE [i \in 1..16 |-> i - 1]
    IN [m EXCEPT !.out = @ \o AllNotesOff(targetChannels),
                 !.activeNotes = <<>>]

sendSafetyNoteOffs(m, channels, onlyActiveChannels) ==
  IF ~m.isConnected THEN m
  ELSE
    LET targetChannels ==
          IF onlyActiveChannels THEN ActiveChannels(m.activeNotes, {})
          ELSE IF channels # Null THEN channels[1]
          ELSE [i \in 1..16 |-> i - 1]
        targets == {targetChannels[i] : i \in DOMAIN targetChannels}
        keysToRemove == {m.activeNotes[i].key : i \in
                           {j \in DOMAIN m.activeNotes :
                              ParseKey(m.activeNotes[j].key)[1] \in targets}}
    IN [m EXCEPT !.out = @ \o AllNotesOff(targetChannels),
                 !.activeNotes = MapDelete(@, keysToRemove)]

scheduleSafetyNoteOffs(m, beat, channels) ==
  addEvent(m, [type |-> SAFETY_NOTEOFF, beat |-> beat, bar |-> 0,
               data |-> [channels |-> channels]])

----------------------------------------------------------------------------
(* Dispatch *)

\* Mutant: a fired NoteOff is sent but its registry entry is kept.
DispatchKeepingEntry(m, id) ==
  LET e == m.heap[id] IN
  IF ~m.isConnected THEN m
  ELSE
    LET key == NoteKey(e.channel, e.note)
        m1 == CASE e.type = NOTE_ON ->
                     [m EXCEPT !.out = Append(@, SendNoteOn(e.note, e.velocity, e.channel)),
                               !.activeNotes = MapSet(@, key, id),
                               !.stats.notesPlayed = @ + 1]
                [] e.type = NOTE_OFF ->
                     [m EXCEPT !.out = Append(@, SendNoteOff(e.note, e.channel))]
                [] e.type = CC ->
                     [m EXCEPT !.out = Append(@, SendCC(e.controller, e.value, e.channel))]
                [] e.type = SAFETY_NOTEOFF ->
                     sendSafetyNoteOffs(m, e.data.channels, FALSE)
                [] OTHER -> m
    IN [m1 EXCEPT !.stats.eventsExecuted = @ + 1,
                  !.stats.lastEventTime = Some(m.now),
                  !.heap[id].fired = @ + 1]

\* executeEvent past its cancelled check: the transport calls of the event.
Dispatch(m, id) ==
  LET e == m.heap[id] IN
  IF ~m.isConnected THEN m
  ELSE
    LET key == NoteKey(e.channel, e.note)
        m1 == CASE e.type = NOTE_ON ->
                     [m EXCEPT !.out = Append(@, SendNoteOn(e.note, e.velocity, e.channel)),
                               !.activeNotes = MapSet(@, key, id),
                               !.stats.notesPlayed = @ + 1]
                [] e.type = NOTE_OFF ->
                     [m EXCEPT !.out = Append(@, SendNoteOff(e.note, e.channel)),
                               !.activeNotes = MapDelete(@, {key})]
                [] e.type = CC ->
                     [m EXCEPT !.out = Append(@, SendCC(e.controller, e.value, e.channel))]
                [] e.type = SAFETY_NOTEOFF ->
                     sendSafetyNoteOffs(m, e.data.channels, FALSE)
                [] OTHER -> m
    IN [m1 EXCEPT !.stats.eventsExecuted = @ + 1,
                  !.stats.lastEventTime = Some(m.now),
                  !.heap[id].fired = @ + 1]

\* Mutant: the cancelled flag is not checked.
executeEventIgnoringCancelled(m, id) == Dispatch(m, id)

executeEvent(m, id) ==
  IF m.heap[id].cancelled THEN m ELSE Dispatch(m, id)

----------------------------------------------------------------------------
(* Lifecycle and runtime controls *)

\* Mutant: start() without the check of isRunning.
startWithoutGuard(m) ==
  [m EXCEPT !.isRunning = TRUE,
            !.lastScheduledBeat = -BeatUnit,
            !.scheduleTimer = Some(m.now + scheduleInterval)]

start(m) ==
  IF m.isRunning THEN m
  ELSE [m EXCEPT !.isRunning = TRUE,
                 !.lastScheduledBeat = -BeatUnit,
                 !.scheduleTimer = Some(m.now + scheduleInterval)]

\* The timers outstanding at a stop() are marked (history only).
MarkPreStop(ts) == [i \in DOMAIN ts |-> [ts[i] EXCEPT !.preStop = TRUE]]

stop(m) ==
  IF ~m.isRunning THEN m
  ELSE stopAllNotes([m EXCEPT !.isRunning = FALSE,
                              !.scheduleTimer = Null,
                              !.timers = MarkPreStop(@)])

\* Mutant: clear() that leaves the eventsScheduled counter as it is.
clearKeepingScheduledCount(m) ==
  LET queued == {m.events[i] : i \in DOMAIN m.events}
      h == [id \in DOMAIN m.heap |->
              IF id \in queued THEN [m.heap[id] EXCEPT !.cancelled = TRUE]
              ELSE m.heap[id]]
      m1 == stopAllNotes([m EXCEPT !.heap = h, !.events = <<>>])
  IN [m1 EXCEPT !.lastScheduledBeat = -BeatUnit,
                !.stats.eventsExecuted = 0]

\* Mutant: clear() that also stops the scheduler.
clearStopping(m) ==
  LET queued == {m.events[i] : i \in DOMAIN m.events}
      h == [id \in DOMAIN m.heap |->
              IF id \in queued THEN [m.heap[id] EXCEPT !.cancelled = TRUE]
              ELSE m.heap[id]]
      m1 == stopAllNotes([m EXCEPT !.heap = h, !.events = <<>>])
  IN [m1 EXCEPT !.lastScheduledBeat = -BeatUnit,
                !.stats.eventsScheduled = 0,
                !.stats.eventsExecuted = 0,
                !.isRunning = FALSE,
                !.scheduleTimer = Null]

\* Mutant: clear() that also disables the loop.
clearResettingLoop(m) ==
  LET queued == {m.events[i] : i \in DOMAIN m.events}
      h == [id \in DOMAIN m.heap |->
              IF id \in queued THEN [m.heap[id] EXCEPT !.cancelled = TRUE]
              ELSE m.heap[id]]
      m1 == stopAllNotes([m EXCEPT !.heap = h, !.events = <<>>])
  IN [m1 EXCEPT !.lastScheduledBeat = -BeatUnit,
                !.stats.eventsScheduled = 0,
                !.stats.eventsExecuted = 0,
                !.loopLength = 0,
                !.loopStart = 0]

\* Mutant: clear() empties the queue without silencing the registered notes.
clearWithoutStopAllNotes(m) ==
  LET queued == {m.events[i] : i \in DOMAIN m.events}
      h == [id \in DOMAIN m.heap |->
              IF id \in queued THEN [m.heap[id] EXCEPT !.cancelled = TRUE]
              ELSE m.heap[id]]
  IN [m EXCEPT !.heap = h, !.events = <<>>,
               !.lastScheduledBeat = -BeatUnit,
               !.stats.eventsScheduled = 0,
               !.stats.eventsExecuted = 0]

clear(m) ==
  LET queued == {m.events[i] : i \in DOMAIN m.events}
      h == [id \in DOMAIN m.heap |->
              IF id \in queued THEN [m.heap[id] EXCEPT !.cancelled = TRUE]
              ELSE m.heap[id]]
      m1 == stopAllNotes([m EXCEPT !.heap = h, !.events = <<>>])
  IN [m1 EXCEPT !.lastScheduledBeat = -BeatUnit,
                !.stats.eventsScheduled = 0,
                !.stats.eventsExecuted = 0]

\* The members of an events array up to its first null member, at which
\* new MidiEvent(null) throws.
RECURSIVE ValidPrefix(_)
ValidPrefix(array) ==
  IF array = <<>> \/ Head(array) = Null THEN <<>>
  ELSE <<Head(array)[1]>> \o ValidPrefix(Tail(array))

\* patterns.forEach(({pattern, startBar}) => this.addPattern(pattern, startBar))
RECURSIVE addPatterns(_, _)
addPatterns(m, patterns) ==
  IF patterns = <<>> THEN m
  ELSE addPatterns(addPattern(m, Head(patterns).pattern, Head(patterns).startBar),
                   Tail(patterns))

\* loadPattern(json): the scheduler it leaves, and whether it threw. json is
\* Null or a document with events (members are event data or null), loop
\* (null or a window) and patterns; no document sets a tempo. Nothing is
\* caught, so the state at a throw is the state the caller finds.
loadPattern(m, json) ==
  LET m1 == clear(m) IN
  IF json = Null THEN [m |-> m1, threw |-> TRUE]
  ELSE
    LET doc == json[1]
        m2 == IF doc.loop # Null
              THEN setLoop(m1, doc.loop[1].length, doc.loop[1].start)
              ELSE m1
        valid == ValidPrefix(doc.events)
        m3 == addEvents(m2, valid)
    IN IF Len(valid) < Len(doc.events) THEN [m |-> m3, threw |-> TRUE]
       ELSE [m |-> addPatterns(m3, doc.patterns), threw |-> FALSE]

\* exportPattern(): the loop window, or null when the loop is off, and the
\* nine exported fields of every queued event in queue order; data is not
\* exported and the document has no patterns. (tempo is the clock's bpm, which
\* loading sets again; quantum is not read back.)
exportPattern(m) ==
  Some([events |-> [i \in DOMAIN m.events |->
                      LET e == m.heap[m.events[i]]
                      IN Some([type |-> e.type, beat |-> e.beat, bar |-> e.bar,
                               note |-> e.note, velocity |-> e.velocity,
                               duration |-> e.duration, channel |-> e.channel,
                               controller |-> e.controller, value |-> e.value])],
        loop |-> IF m.loopLength > 0
                 THEN Some([length |-> m.loopLength, start |-> m.loopStart])
                 ELSE Null,
        patterns |-> <<>>])

\* Mutant: destroy() that stops the scheduler and leaves the queue as it is.
destroyWithoutClear(m) == stop(m)

\* destroy(): stop(), then clear(). this.updateTimer is never assigned after
\* the constructor sets it to null, so its clearInterval branch is not taken;
\* listeners are not part of the state.
destroy(m) == clear(stop(m))

\* Mutant: setLatencyCompensation() storing its argument as given.
setLatencyCompensationUnclamped(m, ms) ==
  [m EXCEPT !.latencyCompensation = ms]

setLatencyCompensation(m, ms) ==
  [m EXCEPT !.latencyCompensation = Max(MinLatency, Min(MaxLatency, ms))]

setPlaybackSpeed(m, speed) ==
  LET oldSpeed == m.playbackSpeed
      newSpeed == Max(MinSpeed, Min(MaxSpeed, speed))
      queued == {m.events[i] : i \in DOMAIN m.events}
  IN IF Abs(oldSpeed - newSpeed) > SpeedEpsilon
     THEN [m EXCEPT !.playbackSpeed = newSpeed,
                    !.heap = [id \in DOMAIN m.heap |->
                                IF id \in queued
                                THEN [m.heap[id] EXCEPT !.executed = FALSE]
                                ELSE m.heap[id]],
                    !.virtualBeatOffset = 0,
                    !.lastUpdateBeat = LinkBeat(m.now)]
     ELSE [m EXCEPT !.playbackSpeed = newSpeed]

----------------------------------------------------------------------------
(* One-shot timers *)

\* setTimeout(callback, delay): the delay is truncated to whole milliseconds
\* and is at least 1 ms.
\* getStats(): the counters, and the sizes read off the registry and the
\* queue at the call (this.currentBeat is never assigned after construction).
getStats(m) ==
  [eventsScheduled |-> m.stats.eventsScheduled,
   eventsExecuted |-> m.stats.eventsExecuted,
   notesPlayed |-> m.stats.notesPlayed,
   lastEventTime |-> m.stats.lastEventTime,
   activeNotes |-> Len(m.activeNotes),
   totalEvents |-> Len(m.events),
   pendingEvents |-> Len(SelectSeq(m.events, LAMBDA id : ~m.heap[id].executed)),
   isRunning |-> m.isRunning,
   loopEnabled |-> m.loopLength > 0,
   currentBeat |-> 0,
   playbackSpeed |-> m.playbackSpeed]

SetTimeout(m, kind, id, delay) ==
  [m EXCEPT !.timers = Append(@, [kind |-> kind, event |-> id,
                                  due |-> m.now + Max(1, delay),
                                  preStop |-> FALSE])]

\* The deferred reset armed in loop mode after an event's fire.
ResetCallback(m, id) ==
  [m EXCEPT !.heap[id].executed = FALSE, !.heap[id].scheduledTime = Null]

ArmReset(m, id) ==
  IF m.loopLength > 0 THEN SetTimeout(m, "reset", id, ResetDelay) ELSE m

\* Mutant: the fire callback takes the fired event out of the queue.
FireCallbackRemovingEvent(m, id) ==
  LET m1 == IF m.isRunning
            THEN [executeEvent(m, id) EXCEPT
                    !.heap[id].executed = TRUE,
                    !.events = SelectSeq(@, LAMBDA x : x # id)]
            ELSE m
  IN ArmReset(m1, id)

\* Mutant: the fire callback without its isRunning check.
FireCallbackWhileStopped(m, id) ==
  ArmReset([executeEvent(m, id) EXCEPT !.heap[id].executed = TRUE], id)

\* The callback of the fire timer of an event.
FireCallback(m, id) ==
  LET m1 == IF m.isRunning
            THEN [executeEvent(m, id) EXCEPT !.heap[id].executed = TRUE]
            ELSE m
  IN ArmReset(m1, id)

----------------------------------------------------------------------------
(* Scheduling Loop *)

\* The loop-wrap reset: every queued event that has executed is made pending
\* again, and its armed timestamp is cleared.
WrapReset(m) ==
  LET queued == {m.events[i] : i \in DOMAIN m.events}
  IN [m EXCEPT !.heap = [id \in DOMAIN m.heap |->
                           IF id \in queued /\ m.heap[id].executed
                           THEN [m.heap[id] EXCEPT !.executed = FALSE,
                                                   !.scheduledTime = Null]
                           ELSE m.heap[id]]]

\* loopPosition < lastLoopPosition, both scaled by the playback speed.
LoopWrapped(m, currentBeat) ==
  LET len == m.loopLength * SpeedScale
  IN JsMod(currentBeat * m.playbackSpeed, len)
       < JsMod(m.lastScheduledBeat * m.playbackSpeed, len)

\* Mutant: the distance to the target without its sign in non-loop mode.
BeatsUntilEventUnsigned(m, e, currentBeat) ==
  LET eventBeat == getAbsoluteBeat(e, QuantumOr4(m)) IN
  IF m.loopLength > 0
  THEN LET len == m.loopLength * SpeedScale
           eventPositionInLoop == JsMod(eventBeat, m.loopLength) * SpeedScale
           currentPositionInLoop == JsMod(currentBeat * m.playbackSpeed, len)
       IN Frac(IF eventPositionInLoop >= currentPositionInLoop
               THEN eventPositionInLoop - currentPositionInLoop
               ELSE len - currentPositionInLoop + eventPositionInLoop,
               BeatUnit * m.playbackSpeed)
  ELSE Frac(Abs(eventBeat * SpeedScale + m.virtualBeatOffset
                  - currentBeat * SpeedScale),
            BeatUnit * SpeedScale)

\* beatsUntilEvent = targetBeat - currentBeat as the fraction num / den of a
\* beat (den > 0).
BeatsUntilEvent(m, e, currentBeat) ==
  LET eventBeat == getAbsoluteBeat(e, QuantumOr4(m)) IN
  IF m.loopLength > 0
  THEN LET len == m.loopLength * SpeedScale
           eventPositionInLoop == JsMod(eventBeat, m.loopLength) * SpeedScale
           currentPositionInLoop == JsMod(currentBeat * m.playbackSpeed, len)
       IN Frac(IF eventPositionInLoop >= currentPositionInLoop
               THEN eventPositionInLoop - currentPositionInLoop
               ELSE len - currentPositionInLoop + eventPositionInLoop,
               BeatUnit * m.playbackSpeed)
  ELSE Frac(eventBeat * SpeedScale + m.virtualBeatOffset
              - currentBeat * SpeedScale,
            BeatUnit * SpeedScale)

\* msPerBeat = 60000 / effectiveBpm, with effectiveBpm = bpm * playbackSpeed.
msPerBeat(m) == Frac(MsPerMinute * SpeedScale, bpm * m.playbackSpeed)

\* msUntilEvent = beatsUntilEvent * msPerBeat
MsUntilEvent(m, b) == FracMul(b, msPerBeat(m))

\* Mutant: the look-ahead window is not widened by negative compensation.
effectiveLookaheadNotWidened(m) == lookaheadTime

effectiveLookahead(m) ==
  lookaheadTime + Abs(Min(0, m.latencyCompensation))

isScheduledForFuture(m, e) ==
  /\ e.scheduledTime # Null
  /\ e.scheduledTime[1] # 0
  /\ e.scheduledTime[1] > m.now

\* The body of this.events.forEach in scheduleEvents, for the event id.
\* scheduledTime holds the ceiling of now + compensatedDelay: it is only ever
\* compared with whole milliseconds.
ProcessEvent(m, id, currentBeat) ==
  IF m.heap[id].executed /\ m.loopLength = 0 THEN m
  ELSE
    LET m1 == IF m.loopLength > 0 /\ LoopWrapped(m, currentBeat)
              THEN WrapReset(m) ELSE m
        e == m1.heap[id]
        b == BeatsUntilEvent(m1, e, currentBeat)
        ms == MsUntilEvent(m1, b)
        compensated == ms.num + m1.latencyCompensation * ms.den
    IN IF /\ b.num >= 0
          /\ ms.num <= effectiveLookahead(m1) * ms.den
          /\ ~isScheduledForFuture(m1, e)
       THEN LET m2 == [m1 EXCEPT !.heap[id].scheduledTime =
                                    Some(m1.now + CeilDiv(compensated, ms.den))]
            IN IF compensated < 0
               THEN ArmReset(IF m2.isRunning
                             THEN [executeEvent(m2, id) EXCEPT
                                     !.heap[id].executed = TRUE]
                             ELSE m2, id)
               ELSE SetTimeout(m2, "fire", id, FloorDiv(compensated, ms.den))
       ELSE m1

RECURSIVE ProcessEvents(_, _, _)
ProcessEvents(m, ids, currentBeat) ==
  IF ids = <<>> THEN m
  ELSE ProcessEvents(ProcessEvent(m, Head(ids), currentBeat), Tail(ids), currentBeat)

\* Mutant: the virtual beat tracking without its restart on a zero offset.
UpdateVirtualBeatAccumulating(m, currentBeat) ==
  LET beatDelta == currentBeat - m.lastUpdateBeat
  IN [m EXCEPT !.virtualBeatOffset = @ + beatDelta * (m.playbackSpeed - SpeedScale),
               !.lastUpdateBeat = currentBeat]

\* The virtual beat tracking at the head of scheduleEvents.
UpdateVirtualBeat(m, currentBeat) ==
  LET lastBeat == IF m.virtualBeatOffset = 0 THEN currentBeat ELSE m.lastUpdateBeat
      beatDelta == currentBeat - lastBeat
  IN [m EXCEPT !.virtualBeatOffset = @ + beatDelta * (m.playbackSpeed - SpeedScale),
               !.lastUpdateBeat = currentBeat]

scheduleEvents(m) ==
  IF ~m.isRunning THEN m
  ELSE LET currentBeat == LinkBeat(m.now)
           m1 == UpdateVirtualBeat(m, currentBeat)
           m2 == ProcessEvents(m1, m1.events, currentBeat)
       IN [m2 EXCEPT !.lastScheduledBeat = currentBeat]

----------------------------------------------------------------------------
(* The state machine *)

\* The registry as the transport sees it: the pairs whose last message was a
\* note-on, after the messages of log are applied in order (history only).
ApplyOut(snd, log) ==
  LET Pair(i) == <<log[i].channel, log[i].note>>
      Idx(p) == {i \in DOMAIN log :
                   log[i].call \in {"noteOn", "noteOff"} /\ Pair(i) = p}
      Last(p) == CHOOSE i \in Idx(p) : \A j \in Idx(p) : j <= i
      candidates == snd \cup {Pair(i) : i \in {j \in DOMAIN log : log[j].call = "noteOn"}}
  IN {p \in candidates : Idx(p) = {} \/ log[Last(p)].call = "noteOn"}

Commit(m, op, hostCall) ==
  /\ events' = m.events
  /\ heap' = m.heap
  /\ activeNotes' = m.activeNotes
  /\ timers' = m.timers
  /\ isRunning' = m.isRunning
  /\ scheduleTimer' = m.scheduleTimer
  /\ latencyCompensation' = m.latencyCompensation
  /\ playbackSpeed' = m.playbackSpeed
  /\ loopLength' = m.loopLength
  /\ loopStart' = m.loopStart
  /\ lastScheduledBeat' = m.lastScheduledBeat
  /\ virtualBeatOffset' = m.virtualBeatOffset
  /\ lastUpdateBeat' = m.lastUpdateBeat
  /\ stats' = m.stats
  /\ isConnected' = m.isConnected
  /\ quantum' = m.quantum
  /\ now' = m.now
  /\ out' = m.out
  /\ sounding' = ApplyOut(sounding, m.out)
  /\ lastOp' = op
  /\ everLooped' = (everLooped \/ m.loopLength > 0)
  /\ ops' = IF hostCall THEN ops + 1 ELSE ops
  /\ t0' = t0

InitFrom(m) ==
  /\ events = m.events
  /\ heap = m.heap
  /\ activeNotes = m.activeNotes
  /\ timers = m.timers
  /\ isRunning = m.isRunning
  /\ scheduleTimer = m.scheduleTimer
  /\ latencyCompensation = m.latencyCompensation
  /\ playbackSpeed = m.playbackSpeed
  /\ loopLength = m.loopLength
  /\ loopStart = m.loopStart
  /\ lastScheduledBeat = m.lastScheduledBeat
  /\ virtualBeatOffset = m.virtualBeatOffset
  /\ lastUpdateBeat = m.lastUpdateBeat
  /\ stats = m.stats
  /\ isConnected = m.isConnected
  /\ quantum = m.quantum
  /\ now = m.now
  /\ out = <<>>
  /\ sounding = {}
  /\ lastOp = [op |-> "new"]
  /\ everLooped = (m.loopLength > 0)
  /\ ops = 0
  /\ t0 = m.now

\* Inputs of the host calls
ClockPhases == {0, 10}
NoteBeats == {125}
NoteNumbers == {60, 64}
NoteDurations == {125}
SafetyBeats == {200}
LoopLengths == {250}
LatencyInputs == {-200, 200}
SpeedInputs == {200}

Init == \E t \in ClockPhases : InitFrom(Constructed(t))

\* The registry keys, and what a host call records about the state it found.
Registered == {activeNotes[i].key : i \in DOMAIN activeNotes}
HostCall(name) ==
  [op |-> name, wasRunning |-> isRunning, registered |-> Registered,
   prev |-> lastOp.op,
   prevRegistered |-> IF lastOp.op = "clear" THEN lastOp.registered ELSE {}]

Start ==
  /\ ops < MaxOps
  /\ Commit(start(State), HostCall("start"), TRUE)

Stop ==
  /\ ops < MaxOps
  /\ Commit(stop(State), HostCall("stop"), TRUE)

Clear ==
  /\ ops < MaxOps
  /\ Commit(clear(State), HostCall("clear"), TRUE)

\* What an addNote call records: its argument and the queue it found.
AddNoteCall(p) == [op |-> "addNote", input |-> p, before |-> events]

AddNote ==
  /\ ops < MaxOps
  /\ Len(heap) + 2 <= MaxEvents
  /\ \E b \in NoteBeats, d \in NoteDurations, n \in NoteNumbers :
       LET p == [beat |-> b, bar |-> 0, note |-> n, velocity |-> 100,
                 duration |-> d, channel |-> 0]
       IN Commit(addNote(State, p), AddNoteCall(p), TRUE)

ScheduleSafetyNoteOffs ==
  /\ ops < MaxOps
  /\ Len(heap) + 1 <= MaxEvents
  /\ \E b \in SafetyBeats :
       Commit(scheduleSafetyNoteOffs(State, b, Some(<<0, 1>>)),
              [op |-> "scheduleSafetyNoteOffs"], TRUE)

SetLoop ==
  /\ ops < MaxControls
  /\ \E len \in LoopLengths :
       Commit(setLoop(State, len, 0), [op |-> "setLoop"], TRUE)

SetLatencyCompensation ==
  /\ ops < MaxControls
  /\ \E ms \in LatencyInputs :
       Commit(setLatencyCompensation(State, ms),
              [op |-> "setLatencyCompensation"], TRUE)

SetPlaybackSpeed ==
  /\ ops < MaxControls
  /\ \E x \in SpeedInputs :
       Commit(setPlaybackSpeed(State, x), [op |-> "setPlaybackSpeed"], TRUE)

\* The setInterval callback of start(): one scheduling pass, then the
\* interval is due again one period later.
Poll ==
  /\ scheduleTimer # Null
  /\ scheduleTimer[1] <= now
  /\ Commit([scheduleEvents(State) EXCEPT !.scheduleTimer = Some(now + scheduleInterval)],
            [op |-> "scheduleEvents"], FALSE)

RemoveAt(s, i) == SubSeq(s, 1, i - 1) \o SubSeq(s, i + 1, Len(s))

\* A due fire timer runs its callback.
FireTimer ==
  \E i \in DOMAIN timers :
    /\ timers[i].kind = "fire"
    /\ timers[i].due <= now
    /\ LET id == timers[i].event
           m == FireCallback([State EXCEPT !.timers = RemoveAt(@, i)], id)
       IN Commit(m, [op |-> "fire", event |-> id, preStop |-> timers[i].preStop,
                     dispatched |-> m.heap[id].fired > heap[id].fired],
                 FALSE)

\* A due deferred reset runs.
ResetTimer ==
  \E i \in DOMAIN timers :
    /\ timers[i].kind = "reset"
    /\ timers[i].due <= now
    /\ Commit(ResetCallback([State EXCEPT !.timers = RemoveAt(@, i)], timers[i].event),
              [op |-> "reset", event |-> timers[i].event], FALSE)

DueTimes == {timers[i].due : i \in DOMAIN timers}
              \cup (IF scheduleTimer = Null THEN {} ELSE {scheduleTimer[1]})

\* Wall-clock time passes, up to the next moment at which a callback is due
\* and by one poll period at most, and not beyond limit.  No callback is late:
\* time does not pass a due callback.  Callbacks due at the same millisecond
\* run in any order.
AdvanceTo(limit) ==
  /\ \A t \in DueTimes : t > now
  /\ LET stops == DueTimes \cup {now + scheduleInterval}
         next == CHOOSE t \in stops : \A u \in stops : t <= u
     IN /\ next <= limit
        /\ Commit([State EXCEPT !.now = next], [op |-> "advance"], FALSE)

Advance == AdvanceTo(MaxTime)

\* The scheduler with its lifecycle calls and the add operations.
Next ==
  \/ Start
  \/ Stop
  \/ Clear
  \/ AddNote
  \/ ScheduleSafetyNoteOffs
  \/ Poll
  \/ FireTimer
  \/ Advance

Spec == Init /\ [][Next]_vars

\* A running scheduler with one note queued, under the runtime controls.
InitCtl ==
  \E t \in ClockPhases, b \in NoteBeats, d \in NoteDurations :
    InitFrom(start(addNote(Constructed(t),
                           [beat |-> b, bar |-> 0, note |-> 60, velocity |-> 100,
                            duration |-> d, channel |-> 0])))

NextCtl ==
  \/ SetLoop
  \/ SetLatencyCompensation
  \/ SetPlaybackSpeed
  \/ Poll
  \/ FireTimer
  \/ ResetTimer
  \/ Advance

SpecCtl == InitCtl /\ [][NextCtl]_vars

\* A running scheduler looping over LoopLen (4 beats), with one event at each of
\* the loop positions, at playback speed 1.0 and latency compensation 0, while
\* the clock advances through MaxCycles loop cycles.
LoopLen == 4 * BeatUnit
LoopPositions == <<0, 1, 3>>

LoopEvents ==
  [i \in DOMAIN LoopPositions |->
     [type |-> CC, beat |-> LoopPositions[i] * BeatUnit, controller |-> i,
      value |-> 127]]

InitLoop ==
  \E t \in ClockPhases :
    InitFrom(start(setLoop(addEvents(Constructed(t), LoopEvents),
                           LoopLen, 0)))

AdvanceLoop == AdvanceTo(t0 + (MaxCycles * LoopLen * MsPerMinute) \div (bpm * BeatUnit))

NextLoop ==
  \/ Poll
  \/ FireTimer
  \/ ResetTimer
  \/ AdvanceLoop

SpecLoop == InitLoop /\ [][NextLoop]_vars

\* addNote as a function of its argument, of the queue and of the quantum the
\* clock source reports at the call (0 stands for a quantum that is not set).
Quanta == {0, 3, 4}
AddBars == {0, 1}
AddBeats == {0, 7 * (BeatUnit \div 2)}
AddDurations == {BeatUnit \div 4, BeatUnit}
AddChannels == {0, 1}

InitAdd == \E q \in Quanta : InitFrom([Constructed(0) EXCEPT !.quantum = q])

AddNoteAt ==
  /\ Len(heap) + 2 <= 2 * MaxNotes
  /\ \E bar \in AddBars, b \in AddBeats, d \in AddDurations, c \in AddChannels :
       LET p == [beat |-> b, bar |-> bar, note |-> 60 + Len(heap), velocity |-> 100,
                 duration |-> d, channel |-> c]
       IN Commit(addNote(State, p), AddNoteCall(p), FALSE)

\* The clock source changes its quantum.
SetQuantum ==
  /\ ~isRunning
  /\ \E q \in Quanta \ {quantum} :
       Commit([State EXCEPT !.quantum = q], [op |-> "setQuantum"], FALSE)

NextAdd ==
  \/ AddNoteAt
  \/ SetQuantum

SpecAddNote == InitAdd /\ [][NextAdd]_vars

\* A running scheduler with a note on channel 0, a note on channel 2 and a
\* safety note-off between their note-ons and note-offs, while the host stops
\* it, calls sendSafetyNoteOffs directly, and the transport
\* disconnects and reconnects.
SafetyChannelInputs == {Some(<<0, 1>>), Some(<<2>>)}

InitReg ==
  \E t \in ClockPhases, ch \in SafetyChannelInputs :
    InitFrom(start(scheduleSafetyNoteOffs(
      addNote(addNote(Constructed(t),
                      [beat |-> 50, bar |-> 0, note |-> 60, velocity |-> 100,
                       duration |-> 300, channel |-> 0]),
              [beat |-> 75, bar |-> 0, note |-> 62, velocity |-> 100,
               duration |-> 300, channel |-> 2]),
      200, ch)))

\* The arguments of a direct call: (channels, onlyActiveChannels).
SafetyCallInputs ==
  {<<Some(<<>>), FALSE>>, <<Some(<<2>>), FALSE>>, <<Null, TRUE>>}

SendSafetyNoteOffs ==
  /\ ops < MaxRegOps
  /\ \E arg \in SafetyCallInputs :
       Commit(sendSafetyNoteOffs(State, arg[1], arg[2]),
              [op |-> "sendSafetyNoteOffs", wasConnected |-> isConnected], TRUE)

\* midiService.isConnected changes.
Disconnect ==
  /\ ops < MaxRegOps
  /\ isConnected
  /\ Commit([State EXCEPT !.isConnected = FALSE], [op |-> "disconnect"], TRUE)

Connect ==
  /\ ~isConnected
  /\ Commit([State EXCEPT !.isConnected = TRUE], [op |-> "connect"], FALSE)

StopReg ==
  /\ ops < MaxRegOps
  /\ Commit(stop(State), HostCall("stop"), TRUE)

NextReg ==
  \/ StopReg
  \/ SendSafetyNoteOffs
  \/ Disconnect
  \/ Connect
  \/ Poll
  \/ FireTimer
  \/ Advance

SpecReg == InitReg /\ [][NextReg]_vars

\* A running scheduler with two events one beat apart (beats 1 and 2), at
\* playback speed 1.0 or 2.0, in non-loop mode or looping over LoopLen, while
\* the clock advances through MaxBeats beats at 120 bpm.
SpeedChoices == {SpeedScale, 2 * SpeedScale}
LoopChoices == {0, LoopLen}
BeatApartEvents ==
  <<[type |-> CC, beat |-> BeatUnit, controller |-> 1, value |-> 127],
    [type |-> CC, beat |-> 2 * BeatUnit, controller |-> 2, value |-> 127]>>

InitSpeed ==
  \E t \in ClockPhases, x \in SpeedChoices, len \in LoopChoices :
    InitFrom(start(setLoop(setPlaybackSpeed(addEvents(Constructed(t), BeatApartEvents), x),
                           len, 0)))

AdvanceSpeed == AdvanceTo(t0 + (MaxBeats * MsPerMinute) \div bpm)

NextSpeed ==
  \/ Poll
  \/ FireTimer
  \/ ResetTimer
  \/ AdvanceSpeed

SpecSpeed == InitSpeed /\ [][NextSpeed]_vars


----------------------------------------------------------------------------
(* Claims *)

Queued == {events[i] : i \in DOMAIN events}
FireTimersOf(id) ==
  {i \in DOMAIN timers : timers[i].kind = "fire" /\ timers[i].event = id}

\* C1: in every reachable state each queued event has at most one outstanding
\* (armed, not yet fired) one-shot fire timer.
C1_AtMostOneArmedTimer ==
  \A id \in Queued : Cardinality(FireTimersOf(id)) <= 1

\* C2: while no loop has been enabled (loop length 0), every event is
\* dispatched to the output transport at most once.
C2_NonLoopAtMostOnce ==
  ~everLooped => \A id \in DOMAIN heap : heap[id].fired <= 1

\* The occurrences of a looping event that the clock has reached since the
\* initial state: the beats position + k * loopLength in (LinkBeat(t0),
\* LinkBeat(now)].
Occurrences(id) ==
  Cardinality({k \in 0..(MaxCycles + 1) :
                 /\ getAbsoluteBeat(heap[id], quantum) + k * loopLength > LinkBeat(t0)
                 /\ getAbsoluteBeat(heap[id], quantum) + k * loopLength <= LinkBeat(now)})

\* No callback is due at the present millisecond.
Quiet == \A t \in DueTimes : t > now

\* C3: with a 4-beat loop, speed 1.0 and latency 0, each of the events at loop
\* positions 0, 1 and 3 is dispatched exactly once per loop cycle: whenever no
\* callback is pending at the present instant, the number of its dispatches is
\* the number of its occurrences the clock has reached, which is 3 after 3
\* cycles.
C3_OncePerCycle ==
  Quiet => \A id \in Queued : heap[id].fired = Occurrences(id)

\* C4: after clear() the queue is empty and every event that was queued is
\* cancelled, and a cancelled event is never dispatched again, whatever timer
\* of it fires later.
C4_ClearedNeverDispatched ==
  /\ [](lastOp.op = "clear" =>
          events = <<>> /\ \A id \in DOMAIN heap : heap[id].cancelled)
  /\ [][\A id \in DOMAIN heap :
          heap[id].cancelled => heap'[id].fired = heap[id].fired]_vars

\* C4 witness: the fire timer of a cancelled event has run while Running.
C4_Witness ==
  /\ lastOp.op = "fire"
  /\ heap[lastOp.event].cancelled
  /\ isRunning
  /\ isConnected

\* C5: the fire callback of a timer that was armed before a stop() is a no-op:
\* it never dispatches its event.
C5_PreStopTimerIsNoOp ==
  lastOp.op = "fire" /\ lastOp.preStop => ~lastOp.dispatched


\* C6 (in the form a finite run decides): once the scheduler is at rest in
\* non-loop mode (Running, no timer outstanding, every queued event behind the
\* clock, so that nothing more will ever be sent unless the host calls again),
\* no (channel, note) pair is left sounding: every note-on sent was followed by
\* a note-off for its pair.
AtRest ==
  /\ isRunning
  /\ ~everLooped
  /\ timers = <<>>
  /\ \A id \in Queued :
       getAbsoluteBeat(heap[id], quantum) * SpeedScale + virtualBeatOffset
         < LinkBeat(now) * SpeedScale
C6_NoNoteLeftSounding == AtRest => sounding = {}


\* The number of note-offs for pair in the transport calls of the last step.
NoteOffsFor(pair) ==
  Cardinality({i \in DOMAIN out :
                 out[i].call = "noteOff" /\ <<out[i].channel, out[i].note>> = pair})
OutPairs == {<<out[i].channel, out[i].note>> : i \in DOMAIN out}

\* C9: stop() called in the Running state sends exactly one note-off for every
\* (channel, note) pair then in the registry, sends nothing else, and leaves
\* the registry empty.
C9_StopSilencesRegistry ==
  lastOp.op = "stop" /\ lastOp.wasRunning =>
    /\ activeNotes = <<>>
    /\ \A i \in DOMAIN out : out[i].call = "noteOff"
    /\ \A pair \in lastOp.registered \cup OutPairs :
         NoteOffsFor(pair) = IF pair \in lastOp.registered THEN 1 ELSE 0

\* C9 witness: a stop() in the Running state that found a pair registered.
C9_Witness ==
  /\ lastOp.op = "stop"
  /\ lastOp.wasRunning
  /\ lastOp.registered # {}


\* C8: clear() sends a note-off for every pair that was registered when it was
\* called and empties the registry; the stop() that follows immediately leaves
\* the registry empty; and the registry stays empty afterwards: it is empty
\* whenever the scheduler is Stopped, and no event that was queued before the
\* clear() is ever registered again.
C8_ClearThenStop ==
  /\ [](lastOp.op = "clear" =>
          /\ activeNotes = <<>>
          /\ \A pair \in lastOp.registered : NoteOffsFor(pair) >= 1)
  /\ [](lastOp.op = "stop" /\ lastOp.prev = "clear" =>
          activeNotes = <<>> /\ ~isRunning)
  /\ [](~isRunning => activeNotes = <<>>)
  /\ [](\A i \in DOMAIN activeNotes : ~heap[activeNotes[i].event].cancelled)

\* C8 witness: stop() right after a clear() that found a pair registered, in
\* the Running state.
C8_Witness ==
  /\ lastOp.op = "stop"
  /\ lastOp.prev = "clear"
  /\ lastOp.wasRunning
  /\ lastOp.prevRegistered # {}

\* C7: after addNote({bar, beat, note, duration, channel}) the queue holds what
\* it held before and exactly one new NoteOn and one new NoteOff, both with the
\* note and channel given; the NoteOn is at bar * quantum + beat and the NoteOff
\* at that absolute beat plus duration, for the quantum in force at the call.
C7_AddNoteMatchingOff ==
  lastOp.op = "addNote" =>
    LET p == lastOp.input
        old == {lastOp.before[i] : i \in DOMAIN lastOp.before}
        new == Queued \ old
        q == QuantumOr4(State)
        ons == {id \in new : heap[id].type = NOTE_ON}
        offs == {id \in new : heap[id].type = NOTE_OFF}
    IN /\ Len(events) = Len(lastOp.before) + 2
       /\ old \subseteq Queued
       /\ Cardinality(new) = 2
       /\ Cardinality(ons) = 1
       /\ Cardinality(offs) = 1
       /\ \A on \in ons, off \in offs :
            /\ heap[on].note = p.note /\ heap[on].channel = p.channel
            /\ heap[off].note = p.note /\ heap[off].channel = p.channel
            /\ getAbsoluteBeat(heap[on], q) = p.bar * q * BeatUnit + p.beat
            /\ getAbsoluteBeat(heap[off], q) = getAbsoluteBeat(heap[on], q) + p.duration

\* C7 witness: a second note added under a quantum of 3 whose note-off falls in
\* a later bar than its note-on.
C7_Witness ==
  /\ lastOp.op = "addNote"
  /\ Len(lastOp.before) = 2
  /\ quantum = 3
  /\ lastOp.input.beat + lastOp.input.duration >= quantum * BeatUnit
  /\ \E id \in Queued :
       heap[id].type = NOTE_OFF /\ heap[id].bar > lastOp.input.bar

SafetyEvents == {id \in DOMAIN heap : heap[id].type = SAFETY_NOTEOFF}

\* C10: in non-loop mode a safety note-off event is dispatched at most once,
\* its dispatch happens when the clock is at the event's beat (within the 1 ms
\* granularity of a timer), and the dispatch sends a note-off for each of the
\* 128 notes of each target channel, whatever the registry holds.
C10_SafetyFiresOnce ==
  ~everLooped =>
    \A id \in SafetyEvents :
      /\ heap[id].fired <= 1
      /\ lastOp.op = "fire" /\ lastOp.event = id /\ lastOp.dispatched =>
           /\ out = AllNotesOff(heap[id].data.channels[1])
           /\ LinkBeat(now) >= getAbsoluteBeat(heap[id], quantum)
           /\ LinkBeat(now - 1) <= getAbsoluteBeat(heap[id], quantum)


\* A step in which a safety note-off is sent: the fire of a safety event, or a
\* direct call of sendSafetyNoteOffs on a connected transport.
SafetySent ==
  \/ /\ lastOp'.op = "fire"
     /\ lastOp'.dispatched
     /\ heap[lastOp'.event].type = SAFETY_NOTEOFF
  \/ /\ lastOp'.op = "sendSafetyNoteOffs"
     /\ lastOp'.wasConnected

\* The registry entries, and the channel of an entry.
Entries(reg) == {reg[i] : i \in DOMAIN reg}
ChannelOf(entry) == entry.key[1]

\* C11: when a safety note-off is sent for a set of channels (the channels of
\* the note-offs of the step), every registry entry on those channels is
\* removed and the entries on the other channels are left as they were.
C11_SafetyClearsOnlyItsChannels ==
  [][SafetySent =>
       LET targets == {out'[i].channel : i \in DOMAIN out'}
       IN /\ Entries(activeNotes') =
               {e \in Entries(activeNotes) : ChannelOf(e) \notin targets}
          /\ Len(activeNotes') = Cardinality(Entries(activeNotes'))]_vars

\* C11 witness: with no host call made, the safety event for channels 0 and 1
\* has fired after both note-ons: the note of channel 2 is still registered.
C11_Witness ==
  /\ lastOp.op = "fire"
  /\ lastOp.dispatched
  /\ heap[lastOp.event].type = SAFETY_NOTEOFF
  /\ heap[lastOp.event].data.channels = Some(<<0, 1>>)
  /\ ops = 0
  /\ Registered = {NoteKey(2, 62)}
  /\ \E id \in Queued :
       heap[id].type = NOTE_ON /\ heap[id].channel = 0 /\ heap[id].fired = 1


\* The fire timers armed by the step: timers are appended in creation order.
ArmedByStep ==
  {i \in (Len(timers) + 1)..Len(timers') : timers'[i].kind = "fire"}

\* C12: a scheduling pass arms no one-shot timer for an event whose adjusted
\* delay (nominal delay + latency compensation) is <= 0: such an event is
\* dispatched within the pass.  In non-loop mode, every timer a pass arms is
\* for an armed timestamp (now + adjusted delay) in the future.
C12_NonPositiveDelayFiresInPass ==
  [][lastOp'.op = "scheduleEvents" /\ ~everLooped' =>
       \A i \in ArmedByStep :
         heap'[timers'[i].event].scheduledTime[1] > now']_vars


\* C13: at 120 bpm the wall-clock interval between the dispatches of two
\* events one beat apart is 60000 / (bpm * playbackSpeed) ms (500 ms at speed
\* 1.0, 250 ms at speed 2.0), in non-loop and in loop mode: when the later
\* event is dispatched for the first time, the time since the last dispatch
\* of the earlier one (stats.lastEventTime) is that interval, within the 2 ms
\* that the whole-millisecond delays of the two timers can add up to.
C13_SpeedScalesInterval ==
  [][\A a \in Queued, b \in Queued :
       /\ heap[b].beat = heap[a].beat + BeatUnit
       /\ heap[a].fired >= 1
       /\ heap[b].fired = 0
       /\ heap'[b].fired = 1
       => LET interval == now' - stats.lastEventTime[1]
          IN Abs(interval * bpm * playbackSpeed - MsPerMinute * SpeedScale)
               <= 2 * bpm * playbackSpeed]_vars


----------------------------------------------------------------------------
(* Scenario: the 4-beat loop of SpecLoop played with negative latency
   compensation, set before the start. *)

PredictiveLatencies == {MinLatency, -lookaheadTime, -(2 * scheduleInterval)}

InitPredictive ==
  \E t \in ClockPhases, c \in PredictiveLatencies :
    InitFrom(start(setLoop(setLatencyCompensation(
                             addEvents(Constructed(t), LoopEvents), c),
                           LoopLen, 0)))

NextPredictive ==
  \/ Poll
  \/ FireTimer
  \/ ResetTimer
  \/ AdvanceLoop

SpecPredictive == InitPredictive /\ [][NextPredictive]_vars

----------------------------------------------------------------------------
(* Scenario: a running scheduler with two overlapping notes is destroyed at
   any moment, and possibly started again afterwards. *)

\* Most destroy and start calls in one run.
MaxDestroyOps == 3

InitDestroy ==
  \E t \in ClockPhases :
    InitFrom(start(addNote(addNote(Constructed(t),
                                   [beat |-> 50, bar |-> 0, note |-> 60,
                                    velocity |-> 100, duration |-> 200,
                                    channel |-> 0]),
                           [beat |-> 75, bar |-> 0, note |-> 62, velocity |-> 100,
                            duration |-> 200, channel |-> 2])))

Destroy ==
  /\ ops < MaxDestroyOps
  /\ Commit(destroy(State), HostCall("destroy"), TRUE)

StartAgain ==
  /\ ops < MaxDestroyOps
  /\ ~isRunning
  /\ Commit(start(State), HostCall("start"), TRUE)

NextDestroy ==
  \/ Destroy
  \/ StartAgain
  \/ Poll
  \/ FireTimer
  \/ Advance

SpecDestroy == InitDestroy /\ [][NextDestroy]_vars

----------------------------------------------------------------------------
(* Scenario: non-loop playback of two events while the host changes the
   playback speed between passes. *)

\* Most setPlaybackSpeed calls in one run.
MaxSpeedChanges == 2

\* Multipliers in hundredths: 0.5, 1.0, 2.0, 4.0.
RuntimeSpeeds == {SpeedScale \div 2, SpeedScale, 2 * SpeedScale, MaxSpeed}

QuarterBeatEvents ==
  <<[type |-> CC, beat |-> BeatUnit \div 4, controller |-> 1, value |-> 127],
    [type |-> CC, beat |-> BeatUnit \div 2, controller |-> 2, value |-> 127]>>

InitVirtual ==
  \E t \in ClockPhases :
    InitFrom(start(addEvents(Constructed(t), QuarterBeatEvents)))

SetPlaybackSpeedRunning ==
  /\ ops < MaxSpeedChanges
  /\ \E x \in RuntimeSpeeds \ {playbackSpeed} :
       Commit(setPlaybackSpeed(State, x),
              [op |-> "setPlaybackSpeed", arg |-> x], TRUE)

NextVirtual ==
  \/ SetPlaybackSpeedRunning
  \/ Poll
  \/ FireTimer
  \/ Advance

SpecVirtual == InitVirtual /\ [][NextVirtual]_vars

----------------------------------------------------------------------------
(* Scenario: the queue of a scheduler that is not running, filled by every
   inserting operation and by loadPattern while the clock source changes its
   quantum. *)

\* Most loadPattern calls in one run.
MaxLoads == 2

\* Bar 1 beat 0 and bar 0 beat 3.5: which comes first depends on the quantum.
QueueEvents ==
  {[type |-> CC, beat |-> 0, bar |-> 1, controller |-> 7, value |-> 1],
   [type |-> CC, beat |-> 7 * (BeatUnit \div 2), bar |-> 0, controller |-> 7,
    value |-> 2]}

PatternNumber(n) ==
  [number |-> TRUE, note |-> Some(n), duration |-> 0, rest |-> FALSE,
   channel |-> Null]
PatternNote(n, d) ==
  [number |-> FALSE, note |-> Some(n), duration |-> d, rest |-> FALSE,
   channel |-> Null]
PatternRest(d) ==
  [number |-> FALSE, note |-> Null, duration |-> d, rest |-> TRUE,
   channel |-> Null]
\* { note, duration, velocity, channel }: an entry that names its channel.
PatternNoteOn(n, d, c) == [PatternNote(n, d) EXCEPT !.channel = Some(c)]

PatternInputs ==
  {<<PatternNumber(60), PatternRest(3 * BeatUnit), PatternNoteOn(64, BeatUnit, 9)>>,
   <<PatternNote(67, 7 * (BeatUnit \div 2)), PatternNumber(60)>>}

\* The documents: null; empty; two events out of order with a loop window;
\* an events array with a null member; an event and a pattern without loop.
DocInputs ==
  LET late == [type |-> CC, beat |-> 0, bar |-> 1, controller |-> 7, value |-> 1]
      early == [type |-> CC, beat |-> 7 * (BeatUnit \div 2), bar |-> 0,
                controller |-> 7, value |-> 2]
  IN {Null,
      Some([events |-> <<>>, loop |-> Null, patterns |-> <<>>]),
      Some([events |-> <<Some(late), Some(early)>>,
            loop |-> Some([length |-> LoopLen, start |-> 0]),
            patterns |-> <<>>]),
      Some([events |-> <<Some(late), Null, Some(early)>>, loop |-> Null,
            patterns |-> <<>>]),
      Some([events |-> <<Some(early)>>, loop |-> Null,
            patterns |-> <<[pattern |-> <<PatternNumber(60)>>, startBar |-> 1]>>])}

InitQueue == \E q \in Quanta : InitFrom([Constructed(0) EXCEPT !.quantum = q])

\* What an inserting call records: its name and the queue it found.
Insertion(name) == [op |-> name, before |-> events]

AddEventAt ==
  /\ Len(heap) < MaxEvents
  /\ \E p \in QueueEvents : Commit(addEvent(State, p), Insertion("addEvent"), FALSE)

AddNoteBar ==
  /\ Len(heap) < MaxEvents
  /\ \E bar \in AddBars :
       Commit(addNote(State, [beat |-> 7 * (BeatUnit \div 2), bar |-> bar,
                              note |-> 60, velocity |-> 100,
                              duration |-> BeatUnit, channel |-> 0]),
              Insertion("addNote"), FALSE)

AddChordAt ==
  /\ Len(heap) < MaxEvents
  /\ \E bar \in AddBars :
       Commit(addChord(State, [beat |-> 0, bar |-> bar, notes |-> <<60, 64>>,
                               velocity |-> 100, duration |-> BeatUnit,
                               channel |-> 0]),
              Insertion("addChord"), FALSE)

AddPatternAt ==
  /\ Len(heap) < MaxEvents
  /\ \E pattern \in PatternInputs, startBar \in AddBars :
       Commit(addPattern(State, pattern, startBar),
              [op |-> "addPattern", before |-> events, pattern |-> pattern,
               startBar |-> startBar], FALSE)

ScheduleSafetyAt ==
  /\ Len(heap) < MaxEvents
  /\ \E beat \in {3 * BeatUnit, 4 * BeatUnit} :
       Commit(scheduleSafetyNoteOffs(State, beat, Null),
              Insertion("scheduleSafetyNoteOffs"), FALSE)

LoadPattern ==
  /\ ops < MaxLoads
  /\ \E json \in DocInputs :
       LET r == loadPattern(State, json)
       IN Commit(r.m, [op |-> "loadPattern", before |-> events, json |-> json,
                       threw |-> r.threw], TRUE)

NextQueue ==
  \/ AddEventAt
  \/ AddNoteBar
  \/ AddChordAt
  \/ AddPatternAt
  \/ ScheduleSafetyAt
  \/ LoadPattern
  \/ SetQuantum

SpecQueue == InitQueue /\ [][NextQueue]_vars

----------------------------------------------------------------------------
(* Scenario: the two clamped setters called with arguments inside, on and
   outside their ranges, on a scheduler that was never started. *)

\* Most calls of a setter in one run of the clamping scenario.
MaxSetterCalls == 3

\* Milliseconds: far below, just below, on, inside, on, just above and far
\* above the range.
AnyLatencyInputs ==
  {MinLatency * 20, MinLatency - 1, MinLatency, -1, 0, MaxLatency,
   MaxLatency + 1, MaxLatency * 20}

\* Multipliers in hundredths: negative, zero, just below the range, on its
\* lower end, 1.0, on its upper end, just above and far above.
AnySpeedInputs ==
  {-SpeedScale, 0, MinSpeed - 1, MinSpeed, SpeedScale, MaxSpeed, MaxSpeed + 1,
   MaxSpeed * 20}

InitClamp == \E t \in ClockPhases : InitFrom(Constructed(t))

SetLatencyCompensationTo ==
  /\ ops < MaxSetterCalls
  /\ \E ms \in AnyLatencyInputs :
       Commit(setLatencyCompensation(State, ms),
              [op |-> "setLatencyCompensation", arg |-> ms], TRUE)

SetPlaybackSpeedTo ==
  /\ ops < MaxSetterCalls
  /\ \E x \in AnySpeedInputs :
       Commit(setPlaybackSpeed(State, x),
              [op |-> "setPlaybackSpeed", arg |-> x], TRUE)

NextClamp == SetLatencyCompensationTo \/ SetPlaybackSpeedTo

SpecClamp == InitClamp /\ [][NextClamp]_vars

\* The variables of the scheduler and its environment (history left out).
ProgramVars ==
  <<events, heap, activeNotes, timers, isRunning, scheduleTimer,
    latencyCompensation, playbackSpeed, loopLength, loopStart,
    lastScheduledBeat, virtualBeatOffset, lastUpdateBeat, stats, isConnected,
    quantum, now>>

\* C14: start() while Running and stop() while Stopped change nothing; a poll
\* timer is active exactly when isRunning is true; and start() creates a poll
\* timer only when none is active, so that there is never more than one.
C14_OnePollTimerIffRunning ==
  /\ [](isRunning <=> scheduleTimer # Null)
  /\ [][lastOp'.op = "start" /\ isRunning => UNCHANGED ProgramVars]_vars
  /\ [][lastOp'.op = "stop" /\ ~isRunning => UNCHANGED ProgramVars]_vars
  /\ [][lastOp'.op = "start" /\ scheduleTimer' # scheduleTimer =>
         scheduleTimer = Null /\ scheduleTimer' # Null]_vars

\* C14 witness: start() was called while Running, with the poll timer due
\* later than a poll timer created by this call would be.
C14_Witness ==
  /\ lastOp.op = "start"
  /\ lastOp.wasRunning
  /\ isRunning
  /\ scheduleTimer # Null
  /\ scheduleTimer[1] < now + scheduleInterval


\* The value of a range nearest to x.
Nearest(lo, hi, x) == IF x < lo THEN lo ELSE IF x > hi THEN hi ELSE x

NoteOffPairs(log) ==
  {<<log[i].channel, log[i].note>> :
     i \in {j \in DOMAIN log : log[j].call = "noteOff"}}

\* C16: the registry holds a (channel, note) pair exactly when the last
\* message sent to the transport for the pair was a note-on; a dispatched
\* NoteOn registers its pair, and a pair leaves the registry only in a step
\* that sends a note-off for it.
C16_RegistryIsSoundingPairs ==
  /\ [](Registered = {NoteKey(p[1], p[2]) : p \in sounding})
  /\ [][lastOp'.op = "fire" /\ lastOp'.dispatched
          /\ heap[lastOp'.event].type = NOTE_ON =>
         NoteKey(heap[lastOp'.event].channel, heap[lastOp'.event].note)
           \in {activeNotes'[i].key : i \in DOMAIN activeNotes'}]_vars
  /\ [][\A i \in DOMAIN activeNotes :
          activeNotes[i].key \notin {activeNotes'[j].key : j \in DOMAIN activeNotes'}
          => <<ParseKey(activeNotes[i].key)[1], ParseKey(activeNotes[i].key)[2]>>
               \in NoteOffPairs(out')]_vars

\* C16 witness: the transport was disconnected while the safety note-off
\* came due, so both notes were still registered when the NoteOff of note 60
\* on channel 0 fired; it removed its pair and left the pair of note 62.
C16_Witness ==
  /\ lastOp.op = "fire"
  /\ lastOp.dispatched
  /\ heap[lastOp.event].type = NOTE_OFF
  /\ heap[lastOp.event].channel = 0
  /\ \A id \in Queued : heap[id].type = SAFETY_NOTEOFF => heap[id].fired = 0
  /\ \A id \in Queued : heap[id].type = NOTE_ON => heap[id].fired = 1
  /\ ops = 1
  /\ Registered = {NoteKey(2, 62)}
  /\ sounding = {<<2, 62>>}


\* C17: when the timer of a live event fires while the scheduler is running
\* and the transport is disconnected, nothing is sent, the executed flag of
\* the event becomes true and eventsExecuted increases by one.
C17_DisconnectedFireIsCounted ==
  [][/\ lastOp'.op = "fire"
     /\ isRunning
     /\ ~isConnected
     /\ ~heap[lastOp'.event].cancelled
     => /\ out' = <<>>
        /\ heap'[lastOp'.event].executed
        /\ stats'.eventsExecuted = stats.eventsExecuted + 1]_vars


\* The queue as the events it holds, in order.
QueueOf(ids, h) == [i \in DOMAIN ids |-> h[ids[i]]]

\* C18: a loadPattern call that fails leaves the queue exactly as it found it.
C18_FailedLoadKeepsQueue ==
  [][lastOp'.op = "loadPattern" /\ lastOp'.threw =>
       QueueOf(events', heap') = QueueOf(events, heap)]_vars

\* C19: after a successful loadPattern(doc) the queue holds exactly the events
\* that doc describes, as loading doc into a new scheduler with the same
\* quantum gives them and none of the events queued before, and the loop
\* window is that of doc.loop, or disabled (length 0) when doc.loop is null.
C19_LoadReplacesQueueAndLoop ==
  [][lastOp'.op = "loadPattern" /\ ~lastOp'.threw =>
       LET doc == lastOp'.json[1]
           new == loadPattern([Constructed(now) EXCEPT !.quantum = quantum],
                              lastOp'.json).m
       IN /\ QueueOf(events', heap') = QueueOf(new.events, new.heap)
          /\ \A i \in DOMAIN events' : \A j \in DOMAIN events : events'[i] # events[j]
          /\ loopLength' = (IF doc.loop = Null THEN 0 ELSE doc.loop[1].length)
          /\ doc.loop # Null => loopStart' = doc.loop[1].start]_vars

\* Non-decreasing order of absolute beat under quantum q.
Sorted(ids, h, q) ==
  \A i \in 1..(Len(ids) - 1) :
    getAbsoluteBeat(h[ids[i]], q) <= getAbsoluteBeat(h[ids[i + 1]], q)

InsertingOps ==
  {"addEvent", "addNote", "addChord", "addPattern", "scheduleSafetyNoteOffs",
   "loadPattern"}

\* C20: after every insertion (addEvent, addNote, addChord, addPattern,
\* scheduleSafetyNoteOffs, loadPattern) the queue is in non-decreasing order
\* of absolute beat under the quantum the clock reports then (4 when it
\* reports none).
C20_SortedAfterInsertion ==
  [][lastOp'.op \in InsertingOps =>
       Sorted(events', heap', IF quantum' = 0 THEN DefaultQuantum ELSE quantum')]_vars

\* C20 witness: an insertion found a queue that a change of quantum had left
\* out of order, and left at least three events in order.
C20_Witness ==
  /\ lastOp.op \in InsertingOps
  /\ ~Sorted(lastOp.before, heap, IF quantum = 0 THEN DefaultQuantum ELSE quantum)
  /\ Sorted(events, heap, IF quantum = 0 THEN DefaultQuantum ELSE quantum)
  /\ Len(events) >= 3


\* The operations that may change which events are queued.
MembershipOps ==
  {"addEvent", "addNote", "addChord", "addPattern", "scheduleSafetyNoteOffs",
   "clear", "loadPattern", "destroy"}

\* C21: a step of any other operation (a dispatch, a scheduling pass with or
\* without a loop wrap, a deferred reset, start, stop, a configuration
\* setter) leaves the queue with the same entries in the same number.
C21_OnlyQueueOpsChangeMembership ==
  [][lastOp'.op \notin MembershipOps =>
       /\ {events'[i] : i \in DOMAIN events'} = {events[i] : i \in DOMAIN events}
       /\ Len(events') = Len(events)]_vars

\* C21 witness: in loop mode an event has been dispatched twice and is still
\* queued after its second dispatch.
C21_Witness ==
  /\ loopLength > 0
  /\ lastOp.op = "fire"
  /\ lastOp.dispatched
  /\ heap[lastOp.event].fired >= 2
  /\ lastOp.event \in Queued


\* The targets of a and b are more than one poll interval apart at the
\* playback speed in force: (beat_b - beat_a) * msPerBeat > scheduleInterval.
FartherThanPoll(a, b) ==
  LET qa == getAbsoluteBeat(heap[a], IF quantum = 0 THEN DefaultQuantum ELSE quantum)
      qb == getAbsoluteBeat(heap[b], IF quantum = 0 THEN DefaultQuantum ELSE quantum)
  IN (qb - qa) * MsPerMinute * SpeedScale
       > scheduleInterval * bpm * playbackSpeed * BeatUnit

\* C22: in non-loop mode, when the target beat of A is earlier than that of B
\* by more than one poll interval, B is never dispatched while A has not been
\* dispatched, whatever latency compensation and playback speed were set
\* while the two were pending.
C22_EarlierTargetFiresFirst ==
  ~everLooped =>
    \A a \in Queued, b \in Queued :
      FartherThanPoll(a, b) /\ heap[b].fired >= 1 => heap[a].fired >= 1


\* The pass of this step armed a timer for the event or dispatched it.
ActedOn(id) ==
  \/ heap'[id].fired > heap[id].fired
  \/ \E i \in ArmedByStep : timers'[i].event = id

\* The event is not armed for a time later than now.
NotArmedForFuture(m, id) ==
  \/ m.heap[id].scheduledTime = Null
  \/ m.heap[id].scheduledTime[1] <= m.now

\* beatsUntilEvent >= 0 and beatsUntilEvent * msPerBeat <= lookaheadMs +
\* max(0, -latencyCompensationMs), with msPerBeat = 60000 / (bpm * speed).
InWindow(m, id) ==
  LET b == BeatsUntilEvent(m, m.heap[id], LinkBeat(m.now))
  IN /\ b.num >= 0
     /\ b.num * MsPerMinute * SpeedScale
          <= (lookaheadTime + Max(0, -m.latencyCompensation))
               * b.den * bpm * m.playbackSpeed

\* C23 as stated: a pass arms or fires an event exactly when it is not armed
\* for a future time and is inside the window; every other event is left
\* untouched.
C23_PassActsExactlyInWindow ==
  [][lastOp'.op = "scheduleEvents" =>
       \A id \in Queued :
         /\ ActedOn(id) <=> (NotArmedForFuture(State, id) /\ InWindow(State, id))
         /\ ~ActedOn(id) => heap'[id] = heap[id]]_vars

\* The scheduler as the pass sees it once its wrap check has run.
AfterWrapCheck ==
  IF loopLength > 0 /\ LoopWrapped(State, LinkBeat(now))
  THEN WrapReset(State) ELSE State

\* C23 amended: a pass arms or fires an event exactly when the event is
\* eligible (loop mode, or not yet executed), and, after the wrap reset of
\* the pass if the loop wrapped, is not armed for a future time and is inside
\* the window; every other event is left as the wrap check leaves it.
C23_PassActsOnEligibleInWindow ==
  [][lastOp'.op = "scheduleEvents" =>
       \A id \in Queued :
         /\ ActedOn(id) <=>
              /\ loopLength > 0 \/ ~heap[id].executed
              /\ NotArmedForFuture(AfterWrapCheck, id)
              /\ InWindow(AfterWrapCheck, id)
         /\ ~ActedOn(id) => heap'[id] = AfterWrapCheck.heap[id]]_vars

\* C23 witness: in non-loop mode a pass has skipped an executed event that
\* negative compensation fired early and that is still inside the window.
C23_Witness ==
  /\ lastOp.op = "scheduleEvents"
  /\ ~everLooped
  /\ latencyCompensation < 0
  /\ \E id \in Queued :
       /\ heap[id].executed
       /\ heap[id].fired = 1
       /\ NotArmedForFuture(State, id)
       /\ InWindow(State, id)
       /\ LinkBeat(now) < heap[id].beat


Outstanding ==
  {timers[i].event : i \in {j \in DOMAIN timers :
                              timers[j].kind = "fire" /\ timers[j].due > now}}

\* C25: in a pass that detects a loop wrap, the wrap reset leaves the armed
\* timestamp of every event with an outstanding timer as it is, and the pass
\* arms no further timer for such an event.
C25_WrapKeepsArmedEvents ==
  [][/\ lastOp'.op = "scheduleEvents"
     /\ loopLength > 0
     /\ LoopWrapped(State, LinkBeat(now))
     => \A id \in Outstanding \cap Queued :
          /\ WrapReset(State).heap[id].scheduledTime = heap[id].scheduledTime
          /\ \A i \in ArmedByStep : timers'[i].event # id]_vars


\* C26: a setPlaybackSpeed call that changes the speed by more than the
\* epsilon leaves every queued event with its executed flag false and its
\* armed timestamp cleared, and the virtual beat offset at 0.
C26_SpeedChangeClearsArming ==
  [][/\ lastOp'.op = "setPlaybackSpeed"
     /\ Abs(playbackSpeed' - playbackSpeed) > SpeedEpsilon
     => /\ \A id \in Queued :
             ~heap'[id].executed /\ heap'[id].scheduledTime = Null
        /\ virtualBeatOffset' = 0]_vars


\* C27: under every quantum the clock reports after a note was added, the
\* absolute beat of its NoteOff is the absolute beat of its NoteOn plus the
\* duration (the notes of the scenario have distinct note numbers, so the
\* NoteOff of a NoteOn is the one with its note and channel).
C27_PairingSurvivesQuantumChange ==
  \A on \in Queued, off \in Queued :
    /\ heap[on].type = NOTE_ON
    /\ heap[off].type = NOTE_OFF
    /\ heap[off].note = heap[on].note
    /\ heap[off].channel = heap[on].channel
    => getAbsoluteBeat(heap[off], QuantumOr4(State))
         = getAbsoluteBeat(heap[on], QuantumOr4(State)) + heap[on].duration


\* The occurrences of a looping event that a pass can have seen inside its
\* look-ahead window since the initial state: the beats
\* position + k * loopLength in (LinkBeat(t0), LinkBeat(now + window)].
OccurrencesInSight(id) ==
  Cardinality({k \in 0..(MaxCycles + 1) :
                 /\ getAbsoluteBeat(heap[id], quantum) + k * loopLength > LinkBeat(t0)
                 /\ getAbsoluteBeat(heap[id], quantum) + k * loopLength
                      <= LinkBeat(now + effectiveLookahead(State))})

\* C28: in loop mode with negative latency compensation an event is
\* dispatched once for each of its loop occurrences: never more often than
\* it has occurrences inside the look-ahead window so far, and, when no
\* callback is pending at the present instant, at least once for every
\* occurrence the clock has reached.
C28_PredictiveFireOncePerCycle ==
  \A id \in Queued :
    /\ heap[id].fired <= OccurrencesInSight(id)
    /\ Quiet => heap[id].fired >= Occurrences(id)


\* The occurrences of a looping event at playback speed s, one per cycle of
\* loopLength / s clock beats, that the clock has reached since the initial
\* state up to the wall-clock time t: the k with
\* LinkBeat(t0) < (position + k * loopLength) / s <= LinkBeat(t).
ScaledOccurrences(id, t) ==
  Cardinality({k \in 0..(MaxCycles + 1) :
                 LET at == (JsMod(getAbsoluteBeat(heap[id], quantum), loopLength)
                              + k * loopLength) * SpeedScale
                 IN /\ at > LinkBeat(t0) * playbackSpeed
                    /\ at <= LinkBeat(t) * playbackSpeed})

\* C29: in loop mode with latency compensation 0, at the playback speed in
\* force each event is dispatched once per loop cycle of lengthBeats / s clock
\* beats: never more often than it has occurrences up to the end of the
\* look-ahead window, and, when no callback is pending at the present
\* instant, at least once for every occurrence the clock has reached.
C29_OncePerScaledCycle ==
  loopLength > 0 /\ latencyCompensation = 0 =>
    \A id \in Queued :
      /\ heap[id].fired <= ScaledOccurrences(id, now + lookaheadTime)
      /\ Quiet => heap[id].fired >= ScaledOccurrences(id, now)


\* C30: right after destroy() the scheduler is Stopped with no poll timer,
\* the queue and the registry are empty and the call has sent a note-off for
\* every pair that was registered; and an event that a destroy() took out of
\* the queue is never dispatched again, whatever timer of it fires later and
\* whether or not the scheduler is started again.
C30_DestroyLeavesNothing ==
  /\ [](lastOp.op = "destroy" =>
          /\ ~isRunning
          /\ scheduleTimer = Null
          /\ events = <<>>
          /\ activeNotes = <<>>
          /\ \A key \in lastOp.registered :
               NoteOffsFor(<<ParseKey(key)[1], ParseKey(key)[2]>>) >= 1)
  /\ [][\A id \in DOMAIN heap :
          heap[id].cancelled /\ id \notin Queued =>
            heap'[id].fired = heap[id].fired]_vars

\* C30 witness: destroy() was called after both NoteOns were dispatched and
\* while the timer of a NoteOff was armed, the scheduler was started again,
\* and that timer has fired without a dispatch.
C30_Witness ==
  /\ lastOp.op = "fire"
  /\ ~lastOp.dispatched
  /\ lastOp.preStop
  /\ isRunning
  /\ heap[lastOp.event].type = NOTE_OFF
  /\ heap[lastOp.event].cancelled
  /\ \A id \in DOMAIN heap : heap[id].type = NOTE_ON => heap[id].fired = 1
  /\ sounding = {}
  /\ ops = 2


\* C31: clear() leaves isRunning and the poll timer as they are, in either
\* state; and the timer of a live event that fires while the scheduler is
\* running dispatches it, also when the event was added after a clear().
C31_ClearKeepsLifecycle ==
  /\ [][lastOp'.op = "clear" =>
         /\ isRunning' = isRunning
         /\ scheduleTimer' = scheduleTimer]_vars
  /\ [][/\ lastOp'.op = "fire"
        /\ isRunning
        /\ isConnected
        /\ ~heap[lastOp'.event].cancelled
        => lastOp'.dispatched]_vars

\* C31 witness: clear() was called while Running, after the safety note-off
\* it cancelled had been dispatched; a note was added afterwards and its
\* NoteOff has been armed by a later pass and dispatched.
C31_Witness ==
  /\ lastOp.op = "fire"
  /\ lastOp.dispatched
  /\ isRunning
  /\ ops = MaxOps
  /\ heap[lastOp.event].type = NOTE_OFF
  /\ lastOp.event \in Queued
  /\ \E j \in DOMAIN heap :
       /\ j < lastOp.event
       /\ heap[j].cancelled
       /\ heap[j].fired = 1

----------------------------------------------------------------------------
(* The loop window under the lifecycle calls and the setters *)

\* setLoop(length, start) arguments: a window of half a beat and one of
\* three quarters of a beat, the latter starting off the origin.
LoopWindows ==
  {<<BeatUnit \div 2, 0>>, <<(3 * BeatUnit) \div 4, BeatUnit \div 4>>}

SetLoopTo ==
  /\ ops < MaxControls
  /\ \E w \in LoopWindows :
       Commit(setLoop(State, w[1], w[2]),
              [op |-> "setLoop", length |-> w[1], start |-> w[2]], TRUE)

InitWindow ==
  InitFrom(start(addNote(Constructed(0),
                         [beat |-> BeatUnit \div 10, bar |-> 0, note |-> 60,
                          velocity |-> 100, duration |-> BeatUnit \div 10,
                          channel |-> 0])))

\* Time passes, within the first WindowTime milliseconds.
AdvanceWindow == AdvanceTo(WindowTime)

NextWindow ==
  \/ SetLoopTo
  \/ Start
  \/ Stop
  \/ Clear
  \/ SetLatencyCompensation
  \/ SetPlaybackSpeed
  \/ Poll
  \/ FireTimer
  \/ ResetTimer
  \/ AdvanceWindow

SpecWindow == InitWindow /\ [][NextWindow]_vars

\* C32: the loop window changes only in a setLoop or loadPattern call, where
\* it becomes the window passed in: start, stop, clear, the two setters, the
\* scheduling passes and the timer callbacks leave it as it is.  A pass works
\* with the window in force: at speed 1 every timer it arms in loop mode is
\* for a clock beat congruent to the event's beat modulo the current length.
C32_WindowChangesOnlyBySetLoop ==
  /\ [][lastOp'.op \notin {"setLoop", "loadPattern"} =>
         /\ loopLength' = loopLength
         /\ loopStart' = loopStart]_vars
  /\ [][lastOp'.op = "setLoop" =>
         /\ loopLength' = lastOp'.length
         /\ loopStart' = lastOp'.start]_vars
  /\ [][/\ lastOp'.op = "scheduleEvents"
        /\ loopLength > 0
        /\ playbackSpeed = SpeedScale
        => \A i \in ArmedByStep :
             LET id == timers'[i].event
                 target == heap'[id].scheduledTime[1] - latencyCompensation
             IN JsMod(LinkBeat(target), loopLength)
                  = JsMod(getAbsoluteBeat(heap[id], QuantumOr4(State)), loopLength)]_vars

\* C32 witness: after the window was set to three quarters of a beat, a
\* pass has armed the queued NoteOn, dispatched before, for its next
\* occurrence in that window, which is no occurrence of the half-beat window.
C32_Witness ==
  /\ lastOp.op = "scheduleEvents"
  /\ loopLength = (3 * BeatUnit) \div 4
  /\ loopStart = BeatUnit \div 4
  /\ playbackSpeed = SpeedScale
  /\ \E i \in DOMAIN timers :
       LET e == heap[timers[i].event]
           target == LinkBeat(e.scheduledTime[1] - latencyCompensation)
       IN /\ timers[i].kind = "fire"
          /\ timers[i].event \in Queued
          /\ timers[i].due > now
          /\ e.type = NOTE_ON
          /\ e.fired >= 1
          /\ e.scheduledTime = Some(timers[i].due)
          /\ target > e.beat
          /\ JsMod(target, loopLength) = JsMod(e.beat, loopLength)
          /\ JsMod(target, BeatUnit \div 2) # JsMod(e.beat, BeatUnit \div 2)

\* The beats an entry of a pattern takes: a bare note number a quarter beat,
\* any other entry its duration.
EntryBeats(x) == IF x.number THEN BeatUnit \div 4 ELSE x.duration

\* The beats taken by the entries of pattern before the k-th.
RECURSIVE BeatsBefore(_, _)
BeatsBefore(pattern, k) ==
  IF k = 1 THEN 0 ELSE BeatsBefore(pattern, k - 1) + EntryBeats(pattern[k - 1])

\* C33: addPattern(pattern, startBar) adds two events for every entry that
\* is not a rest and none for a rest: a NoteOn at absolute beat startBar x
\* quantum + the beats of the entries before it, and the NoteOff of the same
\* note and channel at that beat + the beats of the entry; all are queued.
C33_PatternLaidOutBackToBack ==
  [][lastOp'.op = "addPattern" =>
       LET pattern == lastOp'.pattern
           q == QuantumOr4(State)
           Added == {id \in DOMAIN heap' : id > Len(heap)}
           notes == {k \in DOMAIN pattern : ~pattern[k].rest}
           At(k) == lastOp'.startBar * q * BeatUnit + BeatsBefore(pattern, k)
       IN /\ Cardinality(Added) = 2 * Cardinality(notes)
          /\ Added \subseteq {events'[i] : i \in DOMAIN events'}
          /\ \A k \in notes :
               \E on \in Added, off \in Added :
                 /\ heap'[on].type = NOTE_ON
                 /\ heap'[on].note = pattern[k].note[1]
                 /\ getAbsoluteBeat(heap'[on], q) = At(k)
                 /\ heap'[off].type = NOTE_OFF
                 /\ heap'[off].note = heap'[on].note
                 /\ heap'[off].channel = heap'[on].channel
                 /\ getAbsoluteBeat(heap'[off], q)
                      = At(k) + EntryBeats(pattern[k])]_vars

\* C33 witness: a pattern of a bare note number, a rest of three beats and a
\* note was added from bar 1 under a quantum of 3, so that the note after
\* the rest lies in the next bar.
C33_Witness ==
  /\ lastOp.op = "addPattern"
  /\ lastOp.startBar = 1
  /\ quantum = 3
  /\ Len(lastOp.pattern) = 3
  /\ lastOp.pattern[2].rest
  /\ Len(events) = Len(lastOp.before) + 4
  /\ \E id \in Queued :
       /\ heap[id].type = NOTE_ON
       /\ heap[id].note = 64
       /\ heap[id].bar = 2
       /\ heap[id].beat = BeatUnit \div 4

\* C34: the NoteOn and the NoteOff that addPattern adds for an entry that
\* names a channel are on that channel.
C34_PatternUsesEntryChannel ==
  [][lastOp'.op = "addPattern" =>
       \A k \in DOMAIN lastOp'.pattern :
         LET x == lastOp'.pattern[k] IN
         ~x.rest /\ x.channel # Null =>
           \A id \in DOMAIN heap' :
             id > Len(heap) /\ heap'[id].note = x.note[1] =>
               heap'[id].channel = x.channel[1]]_vars

\* C35: whenever the scheduler is Stopped the registry is empty; a timer
\* callback or a scheduling pass that runs while it is Stopped registers no
\* note and sends no note-on.
C35_StoppedRegistryEmpty ==
  /\ [](~isRunning => activeNotes = <<>>)
  /\ [][/\ ~isRunning
        /\ lastOp'.op \in {"fire", "reset", "scheduleEvents"}
        => /\ activeNotes' = <<>>
           /\ \A i \in DOMAIN out' : out'[i].call # "noteOn"]_vars

\* C35 witness: stop() found the first note registered and emptied the
\* registry, and the timer of the second NoteOn, armed before the stop, has
\* fired in the Stopped state without a dispatch.
C35_Witness ==
  /\ lastOp.op = "fire"
  /\ ~lastOp.dispatched
  /\ lastOp.preStop
  /\ ~isRunning
  /\ isConnected
  /\ activeNotes = <<>>
  /\ heap[lastOp.event].type = NOTE_ON
  /\ heap[lastOp.event].fired = 0
  /\ \E on \in Queued, off \in Queued :
       /\ heap[on].type = NOTE_ON
       /\ heap[on].fired = 1
       /\ heap[off].type = NOTE_OFF
       /\ heap[off].note = heap[on].note
       /\ heap[off].fired = 0
       /\ \A id \in Queued : heap[id].type = SAFETY_NOTEOFF => heap[id].fired = 0

\* The event lies behind the clock and was never armed nor dispatched.
LateAndUntouched(id, h, ts, t) ==
  /\ getAbsoluteBeat(h[id], QuantumOr4(State)) < LinkBeat(t)
  /\ h[id].scheduledTime = Null
  /\ ~h[id].executed
  /\ h[id].fired = 0
  /\ \A i \in DOMAIN ts : ts[i].event # id

C37_ResetSparesRearmedEvent ==
  [][/\ lastOp'.op = "reset"
     /\ loopLength > 0
     /\ lastOp'.event \in Outstanding
     => heap'[lastOp'.event].scheduledTime
          = heap[lastOp'.event].scheduledTime]_vars

----------------------------------------------------------------------------
(* Scenario: a scheduler that was never started is filled, given a loop
   window, and made to load the document it exports. *)

ReloadExported ==
  /\ ops < MaxLoads
  /\ events # <<>>
  /\ LET json == exportPattern(State)
         r == loadPattern(State, json)
     IN Commit(r.m, [op |-> "loadPattern", before |-> events, json |-> json,
                     threw |-> r.threw, exported |-> TRUE], TRUE)

NextRoundTrip ==
  \/ AddEventAt
  \/ AddNoteBar
  \/ ScheduleSafetyNoteOffs
  \/ ScheduleSafetyAt
  \/ SetLoopTo
  \/ SetQuantum
  \/ ReloadExported

SpecRoundTrip == InitQueue /\ [][NextRoundTrip]_vars

\* The channels a safety note-off event sends note-offs to when it fires
\* with the transport connected; no channel for any other event.
SafetyTargets(e) ==
  IF e.type # SAFETY_NOTEOFF THEN {}
  ELSE LET sent == sendSafetyNoteOffs([State EXCEPT !.isConnected = TRUE],
                                      e.data.channels, FALSE).out
       IN {sent[i].channel : i \in DOMAIN sent}

\* What a round trip is to reproduce of an event.
Content(e) ==
  [type |-> e.type, bar |-> e.bar, beat |-> e.beat, note |-> e.note,
   velocity |-> e.velocity, duration |-> e.duration, channel |-> e.channel,
   controller |-> e.controller, value |-> e.value, targets |-> SafetyTargets(e)]

\* The two queues hold the same contents the same number of times.
SameContents(ids1, h1, ids2, h2) ==
  /\ Len(ids1) = Len(ids2)
  /\ \A i \in DOMAIN ids1 :
       Cardinality({j \in DOMAIN ids1 : Content(h1[ids1[j]]) = Content(h1[ids1[i]])})
         = Cardinality({j \in DOMAIN ids2 :
                          Content(h2[ids2[j]]) = Content(h1[ids1[i]])})

\* C38: loadPattern(exportPattern()) leaves a queue with the same number of
\* events, with the same type, bar, beat, note, velocity, duration, channel,
\* controller and value and, for safety note-off events, the same target
\* channels, and leaves the loop window as it was.
C38_ExportLoadRoundTrip ==
  [][lastOp'.op = "loadPattern" /\ lastOp'.json = exportPattern(State) =>
       /\ ~lastOp'.threw
       /\ SameContents(events, heap, events', heap')
       /\ loopLength' = loopLength
       /\ loopStart' = loopStart]_vars

\* C39: in every state getStats().eventsScheduled equals totalEvents, the
\* length of the queue; a clear() step leaves both at 0, and a step of any
\* other operation that does not replace the queue never lowers the counter
\* and raises it by the number of events it adds.
C39_ScheduledCountIsQueueLength ==
  /\ [](getStats(State).eventsScheduled = getStats(State).totalEvents)
  /\ [][lastOp'.op = "clear" =>
         /\ getStats(State)'.eventsScheduled = 0
         /\ getStats(State)'.totalEvents = 0]_vars
  /\ [][lastOp'.op \notin {"clear", "loadPattern", "destroy"} =>
         /\ stats'.eventsScheduled >= stats.eventsScheduled
         /\ stats'.eventsScheduled - stats.eventsScheduled
              = Len(events') - Len(events)]_vars

\* C39 witness: a note was added after a clear() that had emptied a queue
\* of one event; the counter and the queue length are both 2.
C39_Witness ==
  /\ lastOp.op = "addNote"
  /\ lastOp.before = <<>>
  /\ \E id \in DOMAIN heap : heap[id].cancelled
  /\ Len(heap) = 3
  /\ getStats(State).eventsScheduled = 2
  /\ getStats(State).totalEvents = 2
====
